---- MODULE Spec2Model ----
(***************************************************************************)
(* Model of git_status_checker.py: the Command Runner, the Repository      *)
(* Prober (check_repository and its four checks), the Scanner              *)
(* (scan_repositories), the Reporter's grouping (print_summary), the       *)
(* Exporter (export_to_json) and the entry point main().                   *)
(*                                                                         *)
(* Text is modelled as a sequence of one-character strings, so that        *)
(* str.strip, str.split, str.lower and int() are computed, not assumed.    *)
(* Python's None is the empty tuple <<>> and a set optional is <<v>>.      *)
(***************************************************************************)
EXTENDS Integers, Sequences, FiniteSets, TLC

\* Bounds of the model.
MaxChildren == 2    \* entries of the scanned directory
MaxFaults == 1      \* unexpected exceptions raised during one run
MaxResults == 2     \* length of checker.repositories up to which the scan is invoked again

VARIABLES
    mode,          \* "main": the script run; "api": a caller driving one GitStatusChecker
    root,          \* what base_path names: "missing", "file" or "dir"
    children,      \* base_path.iterdir(), in iteration order
    gitPresent,    \* whether the git binary is on the execution path
    pc,            \* position of the program
    idx,           \* position of the scan loop in children
    step,          \* position inside check_repository
    status,        \* the RepoStatus check_repository is filling
    rets,          \* what the checks of the current check_repository returned so far
    cmds,          \* the git commands issued for the current repository, in order
    faults,        \* exceptions raised so far
    repositories,  \* checker.repositories
    summary,       \* the groups print_summary built, <<>> before it ran
    exportDoc,     \* the document written by export_to_json, <<>> if none
    writeFailed,   \* open()/json.dump raised in export_to_json
    banner,        \* the completion banner was printed
    exitStatus     \* process exit status, -1 while running

vars == <<mode, root, children, gitPresent, pc, idx, step, status, rets, cmds,
          faults, repositories, summary, exportDoc, writeFailed, banner, exitStatus>>

----------------------------------------------------------------------------
\* Text helpers.

Whitespace == {" ", "\n", "\t"}

RECURSIVE LStrip(_)
LStrip(s) == IF s # <<>> /\ Head(s) \in Whitespace THEN LStrip(Tail(s)) ELSE s

RECURSIVE RStrip(_)
RStrip(s) ==
    IF s # <<>> /\ s[Len(s)] \in Whitespace THEN RStrip(SubSeq(s, 1, Len(s) - 1)) ELSE s

\* str.strip()
Strip(s) == RStrip(LStrip(s))

\* str.split('\n'): always at least one piece
RECURSIVE SplitLines(_, _)
SplitLines(s, cur) ==
    IF s = <<>> THEN <<cur>>
    ELSE IF Head(s) = "\n" THEN <<cur>> \o SplitLines(Tail(s), <<>>)
    ELSE SplitLines(Tail(s), Append(cur, Head(s)))

LowerChar(c) ==
    CASE c = "Y" -> "y" [] c = "E" -> "e" [] c = "S" -> "s" [] c = "N" -> "n"
      [] c = "O" -> "o" [] OTHER -> c

\* str.lower()
Lower(s) == [i \in 1..Len(s) |-> LowerChar(s[i])]

Digits == {"0", "1", "2", "3", "4", "5", "6", "7", "8", "9"}

DigitVal(c) ==
    CASE c = "0" -> 0 [] c = "1" -> 1 [] c = "2" -> 2 [] c = "3" -> 3 [] c = "4" -> 4
      [] c = "5" -> 5 [] c = "6" -> 6 [] c = "7" -> 7 [] c = "8" -> 8 [] c = "9" -> 9

RECURSIVE DigitsVal(_, _)
DigitsVal(s, acc) ==
    IF s = <<>> THEN acc ELSE DigitsVal(Tail(s), acc * 10 + DigitVal(Head(s)))

\* int(s): [ok |-> FALSE] stands for ValueError
ParseInt(s) ==
    LET t == Strip(s)
        signed == t # <<>> /\ Head(t) \in {"-", "+"}
        body == IF signed THEN Tail(t) ELSE t
    IN  IF body # <<>> /\ \A i \in 1..Len(body) : body[i] \in Digits
        THEN [ok |-> TRUE,
              val |-> IF signed /\ Head(t) = "-" THEN 0 - DigitsVal(body, 0)
                      ELSE DigitsVal(body, 0)]
        ELSE [ok |-> FALSE, val |-> 0]

UNKNOWN == <<"u", "n", "k", "n", "o", "w", "n">>

----------------------------------------------------------------------------
\* The environment: the directory scanned and what git answers.

NoneVal == <<>>

\* One entry of base_path: a plain file, a directory without .git, or a
\* working copy whose current branch has (or lacks) a configured upstream.
ChildKinds ==
    { [is_dir |-> FALSE, has_git |-> FALSE, upstream |-> FALSE],
      [is_dir |-> TRUE,  has_git |-> FALSE, upstream |-> FALSE],
      [is_dir |-> TRUE,  has_git |-> TRUE,  upstream |-> FALSE],
      [is_dir |-> TRUE,  has_git |-> TRUE,  upstream |-> TRUE] }

Layouts == UNION { [1..n -> ChildKinds] : n \in 0..MaxChildren }

\* Raw standard output of a successful command.
BranchOutputs == { <<>>, <<"m", "\n">>, UNKNOWN \o <<"\n">> }
StatusOutputs ==
    { <<>>, <<"\n">>,
      <<" ", "M", " ", "a", "\n", " ", "\n", "?", "?", " ", "b", "\n">> }
RevParseOutputs == { <<"o", "/", "m", "\n">> }
RevListOutputs ==
    { <<"0", "\n">>, <<"2", "\n">>, <<"+", "2", "\n">>, <<"-", "0", "\n">>, <<>>, <<"x", "\n">> }
FetchOutputs == { <<>> }

Outputs(kind) ==
    CASE kind = "branch" -> BranchOutputs
      [] kind = "status" -> StatusOutputs
      [] kind = "rev-parse" -> RevParseOutputs
      [] kind = "rev-list" -> RevListOutputs
      [] OTHER -> FetchOutputs

\* What subprocess.run can do for one command in repository c: fail to launch
\* (git absent), time out, exit non-zero, or exit 0 with some output.  The
\* upstream of a branch resolves only where one is configured.
Outcomes(kind, c) ==
    IF ~gitPresent THEN { [launch |-> "error", rc |-> 1, out |-> <<>>] }
    ELSE { [launch |-> "timeout", rc |-> 1, out |-> <<>>],
           [launch |-> "ok", rc |-> 1, out |-> <<>>] }
         \cup (IF kind = "rev-parse" /\ ~c.upstream THEN {}
               ELSE { [launch |-> "ok", rc |-> 0, out |-> o] : o \in Outputs(kind) })

\* str(e) of an unexpected exception (non-empty: an exception whose str() is empty
\* leaves an error that print_summary reads as no error)
FaultMessages == { "boom" }

----------------------------------------------------------------------------
\* Command Runner and the four checks.

\* run_git_command: (success, stdout); stderr is read by no caller
run_git_command(o) ==
    IF o.launch = "ok" THEN <<o.rc = 0, Strip(o.out)>> ELSE <<FALSE, <<>>>>

is_git_repository(c) == c.has_git

\* One issued command and whether it succeeded
Ran(kind, o) == [cmd |-> kind, ok |-> run_git_command(o)[1]]

\* Each check yields what it returns (ret) and the commands it issued (ran).
get_current_branch(o) ==
    LET r == run_git_command(o)
    IN  [ret |-> IF r[1] THEN r[2] ELSE UNKNOWN, ran |-> <<Ran("branch", o)>>]

StrippedLines(lines) ==
    [i \in 1..Len(lines) |-> Strip(lines[i])]

check_uncommitted_changes(o) ==
    LET r == run_git_command(o)
        files == SelectSeq(StrippedLines(SplitLines(r[2], <<>>)), LAMBDA l : l # <<>>)
    IN  IF ~r[1] THEN [ret |-> <<FALSE, <<>>>>, ran |-> <<Ran("status", o)>>]
        ELSE [ret |-> <<Len(files) > 0, files>>, ran |-> <<Ran("status", o)>>]

\* A count check whose flag is set by count >= 0
CountCommitsNonNegative(o, ran) ==
    LET r == run_git_command(o)
        n == ParseInt(r[2])
        all == Append(ran, Ran("rev-list", o))
    IN  IF ~r[1] THEN [ret |-> <<FALSE, 0>>, ran |-> all]
        ELSE IF n.ok THEN [ret |-> <<n.val >= 0, n.val>>, ran |-> all]
        ELSE [ret |-> <<FALSE, 0>>, ran |-> all]

\* The tail shared by both counting checks: rev-list --count, then int()
CountCommits(o, ran) ==
    LET r == run_git_command(o)
        n == ParseInt(r[2])
        all == Append(ran, Ran("rev-list", o))
    IN  IF ~r[1] THEN [ret |-> <<FALSE, 0>>, ran |-> all]
        ELSE IF n.ok THEN [ret |-> <<n.val > 0, n.val>>, ran |-> all]
        ELSE [ret |-> <<FALSE, 0>>, ran |-> all]

\* A guard that forgets the "unknown" sentinel
NoBranchEmptyOnly(branch) == branch = <<>>

\* if not branch or branch == "unknown"
NoBranch(branch) == branch = <<>> \/ branch = UNKNOWN

check_unpushed_commits(branch, oParse, oList) ==
    IF NoBranch(branch) THEN [ret |-> <<FALSE, 0>>, ran |-> <<>>]
    ELSE IF ~run_git_command(oParse)[1]
         THEN [ret |-> <<FALSE, 0>>, ran |-> <<Ran("rev-parse", oParse)>>]
    ELSE CountCommits(oList, <<Ran("rev-parse", oParse)>>)

\* A remote check that counts without asking for the upstream
check_remote_updates_unresolved(branch, oDry, oFetch, oParse, oList) ==
    IF NoBranch(branch) THEN [ret |-> <<FALSE, 0>>, ran |-> <<>>]
    ELSE LET dry == run_git_command(oDry)[1]
             fetched == <<Ran("fetch --dry-run", oDry)>>
                        \o (IF dry THEN <<>> ELSE <<Ran("fetch", oFetch)>>)
         IN  IF ~dry /\ ~run_git_command(oFetch)[1]
             THEN [ret |-> <<FALSE, 0>>, ran |-> fetched]
             ELSE CountCommits(oList, Append(fetched, Ran("rev-parse", oParse)))

check_remote_updates(branch, oDry, oFetch, oParse, oList) ==
    IF NoBranch(branch) THEN [ret |-> <<FALSE, 0>>, ran |-> <<>>]
    ELSE LET dry == run_git_command(oDry)[1]
             fetched == <<Ran("fetch --dry-run", oDry)>>
                        \o (IF dry THEN <<>> ELSE <<Ran("fetch", oFetch)>>)
         IN  IF ~dry /\ ~run_git_command(oFetch)[1]
             THEN [ret |-> <<FALSE, 0>>, ran |-> fetched]
             ELSE IF ~run_git_command(oParse)[1]
                  THEN [ret |-> <<FALSE, 0>>, ran |-> Append(fetched, Ran("rev-parse", oParse))]
             ELSE CountCommits(oList, Append(fetched, Ran("rev-parse", oParse)))

----------------------------------------------------------------------------
\* check_repository

\* RepoStatus(name=...), the dataclass defaults
RepoStatus(name) ==
    [name |-> name,
     has_uncommitted_changes |-> FALSE,
     has_unpushed_commits |-> FALSE,
     has_remote_updates |-> FALSE,
     current_branch |-> <<>>,
     uncommitted_files |-> <<>>,
     unpushed_commits_count |-> 0,
     remote_commits_count |-> 0,
     error |-> NoneVal]

\* A try block that asks for unpushed commits before the working-tree status
NextStepSwapped(s) ==
    CASE s = "branch" -> "unpushed"
      [] s = "unpushed" -> "uncommitted"
      [] s = "uncommitted" -> "remote"
      [] OTHER -> "return"

\* The order of the statements of the try block
NextStep(s) ==
    CASE s = "branch" -> "uncommitted"
      [] s = "uncommitted" -> "unpushed"
      [] s = "unpushed" -> "remote"
      [] OTHER -> "return"

\* What the check at step s can do in the current repository
Attempt(s) ==
    LET c == children[idx]
        b == status.current_branch
    IN  CASE s = "branch" -> { get_current_branch(o) : o \in Outcomes("branch", c) }
          [] s = "uncommitted" ->
               { check_uncommitted_changes(o) : o \in Outcomes("status", c) }
          [] s = "unpushed" ->
               { check_unpushed_commits(b, o1, o2) :
                   o1 \in Outcomes("rev-parse", c), o2 \in Outcomes("rev-list", c) }
          [] OTHER ->
               { check_remote_updates(b, o1, o2, o3, o4) :
                   o1 \in Outcomes("fetch --dry-run", c), o2 \in Outcomes("fetch", c),
                   o3 \in Outcomes("rev-parse", c), o4 \in Outcomes("rev-list", c) }

\* The commands ran, as issued now for the current repository
Issue(ran) ==
    cmds \o [i \in 1..Len(ran) |->
               [repo |-> idx, check |-> step, cmd |-> ran[i].cmd, ok |-> ran[i].ok,
                nres |-> Len(repositories)]]

Unscanned == <<mode, root, children, gitPresent, pc, idx, faults, repositories,
               summary, exportDoc, writeFailed, banner, exitStatus>>

\* status.current_branch = self.get_current_branch(repo_path)
GetCurrentBranch ==
    /\ pc = "check" /\ step = "branch"
    /\ \E r \in Attempt(step) :
         /\ status' = [status EXCEPT !.current_branch = r.ret]
         /\ rets' = Append(rets, r.ret)
         /\ cmds' = Issue(r.ran)
    /\ step' = NextStep(step)
    /\ UNCHANGED Unscanned

CheckUncommitted ==
    /\ pc = "check" /\ step = "uncommitted"
    /\ \E r \in Attempt(step) :
         /\ status' = [status EXCEPT !.has_uncommitted_changes = r.ret[1],
                                     !.uncommitted_files = r.ret[2]]
         /\ rets' = Append(rets, r.ret)
         /\ cmds' = Issue(r.ran)
    /\ step' = NextStep(step)
    /\ UNCHANGED Unscanned

CheckUnpushed ==
    /\ pc = "check" /\ step = "unpushed"
    /\ \E r \in Attempt(step) :
         /\ status' = [status EXCEPT !.has_unpushed_commits = r.ret[1],
                                     !.unpushed_commits_count = r.ret[2]]
         /\ rets' = Append(rets, r.ret)
         /\ cmds' = Issue(r.ran)
    /\ step' = NextStep(step)
    /\ UNCHANGED Unscanned

CheckRemote ==
    /\ pc = "check" /\ step = "remote"
    /\ \E r \in Attempt(step) :
         /\ status' = [status EXCEPT !.has_remote_updates = r.ret[1],
                                     !.remote_commits_count = r.ret[2]]
         /\ rets' = Append(rets, r.ret)
         /\ cmds' = Issue(r.ran)
    /\ step' = NextStep(step)
    /\ UNCHANGED Unscanned

\* An except handler that starts over from a fresh RepoStatus
CaughtFresh(st, msg) == [RepoStatus(st.name) EXCEPT !.error = <<msg>>]

\* except Exception as e: status.error = str(e)
Caught(st, msg) == [st EXCEPT !.error = <<msg>>]

\* An unexpected exception inside the try block.  The exception leaves the
\* check at the current step after any prefix of its commands.
Fault ==
    /\ pc = "check" /\ step # "return"
    /\ faults < MaxFaults
    /\ \E msg \in FaultMessages, r \in Attempt(step) :
         \E n \in 0..Len(r.ran) :
            /\ status' = Caught(status, msg)
            /\ cmds' = Issue(SubSeq(r.ran, 1, n))
    /\ faults' = faults + 1
    /\ step' = "return"
    /\ UNCHANGED <<mode, root, children, gitPresent, pc, idx, rets, repositories,
                   summary, exportDoc, writeFailed, banner, exitStatus>>

----------------------------------------------------------------------------
\* scan_repositories

Untouched == <<mode, root, children, gitPresent, faults, summary, exportDoc,
               writeFailed, banner, exitStatus>>

\* Where the caller of scan_repositories goes on
AfterScan == IF mode = "main" THEN "summary" ELSE "idle"

\* The head of scan_repositories: a missing base_path returns at once, and
\* iterdir() of a plain file raises NotADirectoryError out of the method.
ScanStart ==
    /\ pc = "scan"
    /\ pc' = IF root = "missing" THEN AfterScan
             ELSE IF root = "file" THEN "raised" ELSE "iter"
    /\ idx' = 1
    /\ UNCHANGED <<step, status, rets, cmds, repositories>>
    /\ UNCHANGED Untouched

\* if item.is_dir() and self.is_git_repository(item): false
SkipChild ==
    /\ pc = "iter" /\ idx <= Len(children)
    /\ ~(children[idx].is_dir /\ is_git_repository(children[idx]))
    /\ idx' = idx + 1
    /\ UNCHANGED <<pc, step, status, rets, cmds, repositories>>
    /\ UNCHANGED Untouched

\* status = RepoStatus(name=repo_name, path=str(repo_path)); the name of a child is
\* its position in the directory
EnterCheck ==
    /\ pc = "iter" /\ idx <= Len(children)
    /\ children[idx].is_dir /\ is_git_repository(children[idx])
    /\ pc' = "check"
    /\ step' = "branch"
    /\ status' = RepoStatus(idx)
    /\ rets' = <<>>
    /\ cmds' = <<>>
    /\ UNCHANGED <<idx, repositories>>
    /\ UNCHANGED Untouched

\* return status; self.repositories.append(status); repo_count += 1
AppendStatus ==
    /\ pc = "check" /\ step = "return"
    /\ repositories' = Append(repositories, status)
    /\ idx' = idx + 1
    /\ pc' = "iter"
    /\ step' = "idle"
    /\ status' = RepoStatus(0)
    /\ rets' = <<>>
    /\ cmds' = <<>>
    /\ UNCHANGED Untouched

\* the loop is exhausted
ScanEnd ==
    /\ pc = "iter" /\ idx > Len(children)
    /\ pc' = AfterScan
    /\ UNCHANGED <<idx, step, status, rets, cmds, repositories>>
    /\ UNCHANGED Untouched

Scan ==
    \/ ScanStart \/ SkipChild \/ EnterCheck
    \/ GetCurrentBranch \/ CheckUncommitted \/ CheckUnpushed \/ CheckRemote
    \/ Fault \/ AppendStatus \/ ScanEnd

----------------------------------------------------------------------------
\* print_summary

\* Python truthiness of repo.error: None and "" are false
Truthy(error) == error # NoneVal /\ error[1] # ""

\* The entries of repos, by position (a list keeps references, not copies)
Indices(repos) == [i \in 1..Len(repos) |-> i]

\* A clean test that lost the `not` of its last condition
IsCleanWantsError(repo) ==
    /\ ~repo.has_uncommitted_changes
    /\ ~repo.has_unpushed_commits
    /\ ~repo.has_remote_updates
    /\ Truthy(repo.error)

IsClean(repo) ==
    /\ ~repo.has_uncommitted_changes
    /\ ~repo.has_unpushed_commits
    /\ ~repo.has_remote_updates
    /\ ~Truthy(repo.error)

repos_with_uncommitted(repos) ==
    SelectSeq(Indices(repos), LAMBDA i : repos[i].has_uncommitted_changes)
repos_with_unpushed(repos) ==
    SelectSeq(Indices(repos), LAMBDA i : repos[i].has_unpushed_commits)
repos_with_remote_updates(repos) ==
    SelectSeq(Indices(repos), LAMBDA i : repos[i].has_remote_updates)
repos_with_errors(repos) ==
    SelectSeq(Indices(repos), LAMBDA i : Truthy(repos[i].error))
clean_repos(repos) ==
    SelectSeq(Indices(repos), LAMBDA i : IsClean(repos[i]))

PrintSummary ==
    /\ pc = "summary"
    /\ summary' = << [uncommitted |-> repos_with_uncommitted(repositories),
                      unpushed |-> repos_with_unpushed(repositories),
                      remote_updates |-> repos_with_remote_updates(repositories),
                      errors |-> repos_with_errors(repositories),
                      clean |-> clean_repos(repositories),
                      total |-> Len(repositories)] >>
    /\ pc' = "prompt"
    /\ UNCHANGED <<mode, root, children, gitPresent, idx, step, status, rets, cmds,
                   faults, repositories, exportDoc, writeFailed, banner, exitStatus>>

----------------------------------------------------------------------------
\* main and export_to_json

\* os.path.exists / os.path.isdir of base_path: sys.exit(1) unless a directory
ValidatePath ==
    /\ pc = "main"
    /\ pc' = IF root = "dir" THEN "scan" ELSE "exited"
    /\ exitStatus' = IF root = "dir" THEN exitStatus ELSE 1
    /\ UNCHANGED <<mode, root, children, gitPresent, idx, step, status, rets, cmds,
                   faults, repositories, summary, exportDoc, writeFailed, banner>>

\* What input() gives: EOFError, KeyboardInterrupt, or a line
InputEvents ==
    { [kind |-> "EOFError", text |-> <<>>],
      [kind |-> "KeyboardInterrupt", text |-> <<>>],
      [kind |-> "line", text |-> <<"y">>],
      [kind |-> "line", text |-> <<" ", "Y", "E", "S", " ">>],
      [kind |-> "line", text |-> <<"n">>],
      [kind |-> "line", text |-> <<"y", "e", "p">>],
      [kind |-> "line", text |-> <<>>] }

WantsExport(inp) ==
    inp.kind = "line" /\ Strip(Lower(inp.text)) \in { <<"y">>, <<"y", "e", "s">> }

\* The prompt; any answer but y/yes, and a closed or interrupted input, go on to the
\* completion banner and the end of main()
Prompt ==
    /\ pc = "prompt"
    /\ \E inp \in InputEvents :
         IF WantsExport(inp)
         THEN pc' = "export" /\ UNCHANGED <<banner, exitStatus>>
         ELSE pc' = "exited" /\ banner' = TRUE /\ exitStatus' = 0
    /\ UNCHANGED <<mode, root, children, gitPresent, idx, step, status, rets, cmds,
                   faults, repositories, summary, exportDoc, writeFailed>>

\* The document export_to_json builds (the timestamp left out)
ExportData(repos) == [base_path |-> root, repositories |-> repos]

\* Where an OSError of open()/json.dump lands: main() catches only EOFError and
\* KeyboardInterrupt, so it leaves main(): a traceback and exit status 1, no banner
ExportFailure == [pc |-> "exited", banner |-> FALSE, exitStatus |-> 1]

\* checker.export_to_json(output_file), then the banner
Export ==
    /\ pc = "export"
    /\ \E written \in BOOLEAN :
         IF written
         THEN /\ exportDoc' = <<ExportData(repositories)>>
              /\ writeFailed' = FALSE
              /\ pc' = "exited" /\ banner' = TRUE /\ exitStatus' = 0
         ELSE /\ exportDoc' = exportDoc
              /\ writeFailed' = TRUE
              /\ pc' = ExportFailure.pc
              /\ banner' = ExportFailure.banner
              /\ exitStatus' = ExportFailure.exitStatus
    /\ UNCHANGED <<mode, root, children, gitPresent, idx, step, status, rets, cmds,
                   faults, repositories, summary>>

----------------------------------------------------------------------------
\* A caller that invokes scan_repositories again on the same GitStatusChecker

InvokeScan ==
    /\ mode = "api" /\ pc = "idle"
    /\ Len(repositories) < MaxResults
    /\ pc' = "scan"
    /\ UNCHANGED <<mode, root, children, gitPresent, idx, step, status, rets, cmds,
                   faults, repositories, summary, exportDoc, writeFailed, banner,
                   exitStatus>>

----------------------------------------------------------------------------
\* GitStatusChecker.__init__ and the start of the run

Constructed ==
    /\ root \in {"missing", "file", "dir"}
    /\ children \in Layouts
    /\ root # "dir" => children = <<>>
    /\ gitPresent \in BOOLEAN
    /\ idx = 1
    /\ step = "idle"
    /\ status = RepoStatus(0)
    /\ rets = <<>>
    /\ cmds = <<>>
    /\ faults = 0
    /\ repositories = <<>>
    /\ summary = <<>>
    /\ exportDoc = <<>>
    /\ writeFailed = FALSE
    /\ banner = FALSE
    /\ exitStatus = -1

\* python3 git_status_checker.py base_path
Init == Constructed /\ mode = "main" /\ pc = "main"

Next == ValidatePath \/ Scan \/ PrintSummary \/ Prompt \/ Export

Spec == Init /\ [][Next]_vars

\* checker = GitStatusChecker(base_path), then scan_repositories() repeatedly
InitApi == Constructed /\ mode = "api" /\ pc = "idle"

NextApi == InvokeScan \/ Scan

SpecApi == InitApi /\ [][NextApi]_vars

----------------------------------------------------------------------------
\* Properties.

Names(repos) == [i \in 1..Len(repos) |-> repos[i].name]

IsRepo(i) == children[i].is_dir /\ children[i].has_git

\* The working copies among the first n entries of the directory, in order
ReposUpTo(n) == SelectSeq([i \in 1..n |-> i], LAMBDA i : IsRepo(i))

Returned == pc = "check" /\ step = "return"

\* Every RepoStatus there is: the collected ones and the one being returned
Produced == { repositories[i] : i \in 1..Len(repositories) }
            \cup (IF Returned THEN {status} ELSE {})

InGroup(group, i) == \E k \in 1..Len(group) : group[k] = i

ZeroCounts(r) ==
    /\ Len(r.uncommitted_files) = 0
    /\ r.unpushed_commits_count = 0
    /\ r.remote_commits_count = 0

NetworkCmds == {"rev-parse", "rev-list", "fetch", "fetch --dry-run"}

\* C1: in every RepoStatus check_repository produces, each flag equals
\* (its count > 0); the uncommitted flag equals (len(uncommitted_files) > 0).
C1_FlagsMatchCounts ==
    \A r \in Produced :
        /\ r.has_uncommitted_changes = (Len(r.uncommitted_files) > 0)
        /\ r.has_unpushed_commits = (r.unpushed_commits_count > 0)
        /\ r.has_remote_updates = (r.remote_commits_count > 0)

\* C1 witness: a returned status with changed files, commits ahead and no commits behind
C1_Witness ==
    /\ Returned /\ Len(rets) = 4
    /\ Len(status.uncommitted_files) = 2
    /\ status.unpushed_commits_count = 2
    /\ status.remote_commits_count = 0
    /\ \E k \in 1..Len(cmds) : cmds[k].check = "remote" /\ cmds[k].cmd = "rev-list" /\ cmds[k].ok

\* The branch lookup of the current repository returned after its command failed
BranchLookupFailed ==
    /\ pc = "check" /\ Len(rets) >= 1
    /\ cmds[1].cmd = "branch" /\ ~cmds[1].ok

\* Both later checks returned (False, 0) if they returned, and no rev-parse, rev-list
\* or fetch was issued
ShortCircuited ==
    /\ \A k \in 1..Len(cmds) : cmds[k].cmd \notin NetworkCmds
    /\ Len(rets) >= 3 => rets[3] = <<FALSE, 0>>
    /\ Len(rets) >= 4 => rets[4] = <<FALSE, 0>>

\* C2: when the branch lookup fails, current_branch is "unknown" and the unpushed and
\* remote checks return (False, 0) without issuing any command.
C2_BranchFailureShortCircuits ==
    BranchLookupFailed => status.current_branch = UNKNOWN /\ ShortCircuited

\* C2 witness: git is there, the lookup exited non-zero, all four checks returned
C2_Witness ==
    /\ BranchLookupFailed /\ gitPresent
    /\ Returned /\ Len(rets) = 4
    /\ Len(cmds) = 2 /\ cmds[2].cmd = "status" /\ cmds[2].ok

\* C3: a repository whose branch has no upstream yields unpushed (False, 0) and remote
\* (False, 0) whatever fetch does, and no error is recorded unless an exception was raised.
C3_NoUpstreamYieldsNothing ==
    \A r \in Produced :
        ~children[r.name].upstream =>
            /\ ~r.has_unpushed_commits /\ r.unpushed_commits_count = 0
            /\ ~r.has_remote_updates /\ r.remote_commits_count = 0
            /\ faults = 0 => r.error = NoneVal

\* C3 witness: no upstream, the branch resolved, the fetch succeeded and both
\* rev-parse commands failed
C3_Witness ==
    /\ Returned /\ Len(rets) = 4 /\ faults = 0
    /\ ~children[idx].upstream
    /\ status.current_branch = <<"m">>
    /\ \E k \in 1..Len(cmds) : cmds[k].cmd = "fetch" /\ cmds[k].ok
    /\ \E k \in 1..Len(cmds) :
          cmds[k].check = "unpushed" /\ cmds[k].cmd = "rev-parse" /\ ~cmds[k].ok
    /\ \E k \in 1..Len(cmds) :
          cmds[k].check = "remote" /\ cmds[k].cmd = "rev-parse" /\ ~cmds[k].ok

OnlyClean(g, i) ==
    /\ InGroup(g.clean, i)
    /\ ~InGroup(g.uncommitted, i)
    /\ ~InGroup(g.unpushed, i)
    /\ ~InGroup(g.remote_updates, i)
    /\ ~InGroup(g.errors, i)

\* C4 as stated: every repository with zero uncommitted files, zero unpushed commits and
\* zero remote commits is in the clean group and in none of the other four.
C4_ZeroCountsOnlyClean ==
    summary # <<>> =>
        \A i \in 1..Len(repositories) :
            ZeroCounts(repositories[i]) => OnlyClean(summary[1], i)

\* C4 amended: every repository with zero uncommitted files, zero unpushed commits, zero
\* remote commits and no error recorded is in the clean group and in none of the other four.
C4_ZeroCountsNoErrorOnlyClean ==
    summary # <<>> =>
        \A i \in 1..Len(repositories) :
            (ZeroCounts(repositories[i]) /\ repositories[i].error = NoneVal)
                => OnlyClean(summary[1], i)

\* C4 witness: the summary holds a clean repository that was probed with git answering,
\* next to one with zero counts and an error, which is in the error group only
C4_Witness ==
    /\ summary # <<>> /\ gitPresent
    /\ \E i, j \in 1..Len(repositories) :
          /\ ZeroCounts(repositories[i]) /\ repositories[i].error = NoneVal
          /\ repositories[i].current_branch = <<"m">>
          /\ InGroup(summary[1].clean, i)
          /\ ZeroCounts(repositories[j]) /\ repositories[j].error # NoneVal
          /\ InGroup(summary[1].errors, j) /\ ~InGroup(summary[1].clean, j)

CheckRank(c) ==
    CASE c = "branch" -> 1 [] c = "uncommitted" -> 2 [] c = "unpushed" -> 3 [] OTHER -> 4

CmdsOf(c) ==
    CASE c = "branch" -> {"branch"}
      [] c = "uncommitted" -> {"status"}
      [] c = "unpushed" -> {"rev-parse", "rev-list"}
      [] OTHER -> NetworkCmds

\* C5: commands are issued only inside check_repository of the current repository, after
\* the status of every earlier repository was appended, and in the order branch lookup,
\* status, unpushed check, remote check.
C5_Sequential ==
    /\ cmds # <<>> => pc = "check"
    /\ pc = "check" => Names(repositories) = ReposUpTo(idx - 1)
    /\ \A k \in 1..Len(cmds) :
          /\ cmds[k].repo = idx
          /\ cmds[k].nres = Len(repositories)
          /\ cmds[k].cmd \in CmdsOf(cmds[k].check)
          /\ \A j \in 1..(k - 1) : CheckRank(cmds[j].check) <= CheckRank(cmds[k].check)
    /\ (pc = "check" /\ step # "return") =>
          \A k \in 1..Len(cmds) : CheckRank(cmds[k].check) < CheckRank(step)

\* C5 witness: the second repository of the directory after all four checks issued commands
C5_Witness ==
    /\ Returned /\ Len(rets) = 4
    /\ Len(repositories) = 1
    /\ \A c \in {"branch", "uncommitted", "unpushed", "remote"} :
          \E k \in 1..Len(cmds) : cmds[k].check = c

\* The status a fault leaves after n checks returned
Partial(name, rs) ==
    LET n == Len(rs)
        d == RepoStatus(name)
    IN  [name |-> name,
         current_branch |-> IF n >= 1 THEN rs[1] ELSE d.current_branch,
         has_uncommitted_changes |-> IF n >= 2 THEN rs[2][1] ELSE d.has_uncommitted_changes,
         uncommitted_files |-> IF n >= 2 THEN rs[2][2] ELSE d.uncommitted_files,
         has_unpushed_commits |-> IF n >= 3 THEN rs[3][1] ELSE d.has_unpushed_commits,
         unpushed_commits_count |-> IF n >= 3 THEN rs[3][2] ELSE d.unpushed_commits_count,
         has_remote_updates |-> IF n >= 4 THEN rs[4][1] ELSE d.has_remote_updates,
         remote_commits_count |-> IF n >= 4 THEN rs[4][2] ELSE d.remote_commits_count,
         error |-> NoneVal]

ScanOver == pc \in {"summary", "prompt", "export", "exited"} /\ root = "dir"

\* C6: a fault at any step is stored in the error field of the status returned, whose
\* fields set before the fault keep the values the checks returned and whose later fields
\* keep their defaults; the status is appended and every repository of the directory is
\* in the results when the scan is over.
C6_FaultIsRecorded ==
    /\ (Returned /\ Len(rets) < 4) =>
          /\ status.error # NoneVal
          /\ [status EXCEPT !.error = NoneVal] = Partial(idx, rets)
    /\ ScanOver => Names(repositories) = ReposUpTo(Len(children))

\* C6 witness: the scan is over, the first repository faulted after its branch and its
\* changed files were set, and a later repository was probed without error
C6_Witness ==
    /\ ScanOver /\ Len(repositories) = 2
    /\ repositories[1].error = <<"boom">>
    /\ repositories[1].current_branch = <<"m">>
    /\ Len(repositories[1].uncommitted_files) = 2
    /\ repositories[2].error = NoneVal
    /\ repositories[2].unpushed_commits_count = 2

\* C7: when the user answers yes and writing the export file fails, the run still prints
\* the completion banner and exits with status 0, as a run without export does.
C7_ExportFailureKeepsExitStatus ==
    (pc = "exited" /\ writeFailed) => (banner /\ exitStatus = 0)

\* C8: when git is absent, so that every command of a probed repository fails to launch,
\* the run (here one in which no exception was raised) exits with a non-zero status.
C8_MissingGitIsFatal ==
    (pc = "exited" /\ ~gitPresent /\ Len(repositories) > 0 /\ faults = 0) => exitStatus # 0

\* A call of scan_repositories has returned to the caller
ScanReturned == pc = "idle" /\ (root = "dir" => idx > Len(children))

\* C9: after any number of invocations of scan_repositories the results hold exactly one
\* RepoStatus per repository of the directory, in order, and none for a missing root
\* (stated for the runs in which no exception was raised).
C9_ResultsAreLatestScan ==
    (ScanReturned /\ faults = 0) =>
        Names(repositories) = IF root = "dir" THEN ReposUpTo(Len(children)) ELSE <<>>

\* C10: whenever the branch lookup fails or succeeds with empty output, current_branch is
\* "unknown" and the unpushed and remote checks short-circuit to (False, 0).
C10_UndeterminedBranchIsUnknown ==
    (pc = "check" /\ Len(rets) >= 1 /\ (~cmds[1].ok \/ rets[1] = <<>>))
        => status.current_branch = UNKNOWN /\ ShortCircuited

====
